---------------------------- MODULE Spec2Model ----------------------------
(***************************************************************************)
(* Model of path-utils/src/cubic_to_quadratic.rs:                          *)
(*   CubicToQuadraticSegmentIter  - adaptive cubic -> quadratic subdivision *)
(*   ArcToQuadraticSegmentIter    - buffered arc decomposition              *)
(*   CubicToQuadraticTransformer  - path event stream rewriting             *)
(* Coordinates and error bounds are f32 values; the arithmetic below is    *)
(* IEEE-754 binary32 with round-to-nearest-even, so that the error test of *)
(* the subdivision loop sees the same rounding the program sees.           *)
(***************************************************************************)
EXTENDS Integers, Sequences, FiniteSets, TLC

\* ---------------------------------------------------------------------
\* IEEE-754 binary32 (Rust f32) arithmetic, round-to-nearest-even.
\* A value is [k, s, m, e]: k = "fin" means s * m * 2^e with m odd (or the
\* canonical zero), k = "inf" is s * infinity, k = "nan" is NaN.
\* ---------------------------------------------------------------------
MantBits == 24
EMin == 0 - 149
EMax == 128

P2 == <<1, 2, 4, 8, 16, 32, 64, 128, 256, 512, 1024, 2048, 4096, 8192,
        16384, 32768, 65536, 131072, 262144, 524288, 1048576, 2097152,
        4194304, 8388608, 16777216, 33554432, 67108864, 134217728,
        268435456, 536870912, 1073741824>>

Pow2(n) == P2[n + 1]

\* number of bits of n, for 0 <= n < 2^31
BitLen(n) == Cardinality({i \in 1..31 : P2[i] <= n})

Zero == [k |-> "fin", s |-> 1, m |-> 0, e |-> 0]

Inf(s) == [k |-> "inf", s |-> s, m |-> 0, e |-> 0]

NaN == [k |-> "nan", s |-> 1, m |-> 0, e |-> 0]

\* s * m * 2^e with the tz trailing zero bits of m moved into the exponent
CanonShift(s, m, e, tz) == [k |-> "fin", s |-> s, m |-> m \div Pow2(tz), e |-> e + tz]

Canon(s, m, e) ==
    IF m = 0 THEN Zero
    ELSE CanonShift(s, m, e, Cardinality({i \in 1..30 : m % P2[i + 1] = 0}))

\* the rounded mantissa q2 at exponent t
RoundPack(s, q2, t) == IF BitLen(q2) + t > EMax THEN Inf(s) ELSE Canon(s, q2, t)

\* round to nearest, ties to even: q is the kept part, r the dropped part
\* and half the weight of half a unit in the last kept place
RoundNearest(s, q, r, half, t, sticky) ==
    IF \/ r > half
       \/ r = half /\ sticky
       \/ r = half /\ q % 2 = 1
    THEN RoundPack(s, q + 1, t)
    ELSE RoundPack(s, q, t)

\* M has bl bits and the result keeps the bits from exponent t upwards
RoundAt(s, M, E, sticky, bl, t) ==
    IF t <= E THEN
        IF bl + E > EMax THEN Inf(s) ELSE Canon(s, M, E)
    ELSE IF t - E > bl THEN Zero
    ELSE RoundNearest(s, M \div Pow2(t - E), M % Pow2(t - E), Pow2(t - E - 1), t, sticky)

RoundBits(s, M, E, sticky, bl) ==
    RoundAt(s, M, E, sticky, bl,
            IF E + bl - MantBits > EMin THEN E + bl - MantBits ELSE EMin)

\* The f32 nearest to s * (M + f) * 2^E, where 0 <= M < 2^31 and f is 0
\* (sticky = FALSE) or some fraction strictly between 0 and 1 (sticky = TRUE).
Round(s, M, E, sticky) == RoundBits(s, M, E, sticky, BitLen(M))

F(n) == IF n < 0 THEN Canon(0 - 1, 0 - n, 0) ELSE Canon(1, n, 0)

\* n * 2^e for an integer n with |n| < 2^24
Fe(n, e) == IF n < 0 THEN Canon(0 - 1, 0 - n, e) ELSE Canon(1, n, e)

Neg(a) == IF a.k = "nan" \/ (a.k = "fin" /\ a.m = 0) THEN a ELSE [a EXCEPT !.s = 0 - a.s]

IsZero(a) == a.k = "fin" /\ a.m = 0

\* exponent just above the leading bit of a non-zero finite value
Top(a) == a.e + BitLen(a.m)

\* m * 2^d truncated to an integer, and whether bits were dropped
ShiftMant(m, d) ==
    IF d >= 0 THEN m * Pow2(d)
    ELSE IF 0 - d > 30 THEN 0
    ELSE m \div Pow2(0 - d)

ShiftSticky(m, d) ==
    IF d >= 0 THEN FALSE
    ELSE IF 0 - d > 30 THEN TRUE
    ELSE m % Pow2(0 - d) # 0

\* A and B are the mantissas of hi and lo at the common exponent Ea
AddRound(hi, lo, A, B, Ea, st) ==
    IF hi.s = lo.s THEN Round(hi.s, A + B, Ea, st)
    ELSE IF st THEN Round(hi.s, A - B - 1, Ea, TRUE)
    ELSE IF A >= B THEN Round(hi.s, A - B, Ea, FALSE)
    ELSE Round(lo.s, B - A, Ea, FALSE)

\* hi is the operand with the higher leading bit, widened by up bits
AddAligned(hi, lo, up) ==
    AddRound(hi, lo, hi.m * Pow2(up), ShiftMant(lo.m, lo.e - hi.e + up),
             hi.e - up, ShiftSticky(lo.m, lo.e - hi.e + up))

AddFin(a, b) ==
    IF Top(a) >= Top(b)
    THEN AddAligned(a, b, MantBits + 3 - BitLen(a.m))
    ELSE AddAligned(b, a, MantBits + 3 - BitLen(b.m))

Add(a, b) ==
    IF a.k = "nan" \/ b.k = "nan" THEN NaN
    ELSE IF a.k = "inf" THEN (IF b.k = "inf" /\ b.s # a.s THEN NaN ELSE a)
    ELSE IF b.k = "inf" THEN b
    ELSE IF IsZero(a) THEN b
    ELSE IF IsZero(b) THEN a
    ELSE AddFin(a, b)

Sub(a, b) == Add(a, Neg(b))

\* the 48-bit product as hi * 2^24 + lo, of which the top 30 bits are kept
MulRound(s, e, sh, hi, lo) ==
    Round(s, hi * Pow2(24 - sh) + lo \div Pow2(sh), e, lo % Pow2(sh) # 0)

\* the product of two mantissas from the products of their 12-bit limbs
MulWide(s, e, sh, hh, mid, ll) ==
    MulRound(s, e, sh,
             hh + mid \div 4096 + (ll + (mid % 4096) * 4096) \div 16777216,
             (ll + (mid % 4096) * 4096) % 16777216)

MulBits(a, b, bits) ==
    IF bits <= 30 THEN Round(a.s * b.s, a.m * b.m, a.e + b.e, FALSE)
    ELSE MulWide(a.s * b.s, a.e + b.e + bits - 30, bits - 30,
                 (a.m \div 4096) * (b.m \div 4096),
                 (a.m \div 4096) * (b.m % 4096) + (a.m % 4096) * (b.m \div 4096),
                 (a.m % 4096) * (b.m % 4096))

MulFin(a, b) == MulBits(a, b, BitLen(a.m) + BitLen(b.m))

Mul(a, b) ==
    IF a.k = "nan" \/ b.k = "nan" THEN NaN
    ELSE IF a.k = "inf" THEN (IF IsZero(b) THEN NaN ELSE Inf(a.s * b.s))
    ELSE IF b.k = "inf" THEN (IF IsZero(a) THEN NaN ELSE Inf(a.s * b.s))
    ELSE IF IsZero(a) \/ IsZero(b) THEN Zero
    ELSE MulFin(a, b)

\* the dividend widened by up bits to 30 bits
DivScaled(a, b, up) ==
    Round(a.s * b.s, (a.m * Pow2(up)) \div b.m, a.e - up - b.e,
          (a.m * Pow2(up)) % b.m # 0)

\* Division by a finite non-zero divisor whose mantissa is below 64.
DivFin(a, b) == DivScaled(a, b, 30 - BitLen(a.m))

Div(a, b) ==
    IF a.k = "nan" THEN NaN
    ELSE IF a.k = "inf" THEN Inf(a.s * b.s)
    ELSE IF IsZero(a) THEN Zero
    ELSE DivFin(a, b)

\* the largest digit d with (16q + d) * d <= rem
SqrtDigit(q, rem) == Cardinality({i \in 1..7 : (16 * q + i) * i <= rem})

\* Digit-by-digit square root in base 8.  q is the root of the radicand
\* digits consumed so far and r the remainder; each step brings down the
\* next six bits of the 30-bit radicand (n steps of it are left, then
\* zeros) and appends the largest digit d with (16q + d) * d <= 64r + bits.
RECURSIVE SqrtDigits(_, _, _, _, _)
SqrtStep(q, rem, d, radicand, n, E) ==
    SqrtDigits(8 * q + d, rem - (16 * q + d) * d, radicand,
               IF n > 0 THEN n - 1 ELSE 0, E - 3)

SqrtBringDown(q, rem, radicand, n, E) ==
    SqrtStep(q, rem, SqrtDigit(q, rem), radicand, n, E)

SqrtDigits(q, r, radicand, n, E) ==
    IF BitLen(q) >= MantBits + 2 THEN Round(1, q, E, r # 0)
    ELSE SqrtBringDown(q,
             64 * r + (IF n > 0 THEN (radicand \div Pow2(6 * (n - 1))) % 64 ELSE 0),
             radicand, n, E)

\* the radicand is scaled by an even power of two, 2^up, into [2^28, 2^30)
SqrtScaled(a, up) == SqrtDigits(0, 0, a.m * Pow2(up), 5, (a.e - up) \div 2 + 15)

SqrtFin(a) ==
    SqrtScaled(a, 30 - BitLen(a.m) - ((a.e + 30 - BitLen(a.m)) % 2))

Sqrt(a) ==
    IF a.k = "nan" THEN NaN
    ELSE IF IsZero(a) THEN Zero
    ELSE IF a.s < 0 THEN NaN
    ELSE IF a.k = "inf" THEN a
    ELSE SqrtFin(a)

Negative(d) == ~IsZero(d) /\ d.s < 0

\* a < b as f32 compares: false whenever either side is NaN.  The sign of
\* the rounded difference is the sign of the exact difference.
Lt(a, b) ==
    IF a.k = "nan" \/ b.k = "nan" THEN FALSE
    ELSE IF a = b THEN FALSE
    ELSE Negative(Sub(a, b))

\* f32::max: a NaN argument is ignored
Max(a, b) ==
    IF a.k = "nan" THEN b
    ELSE IF b.k = "nan" THEN a
    ELSE IF Lt(a, b) THEN b ELSE a

\* ---------------------------------------------------------------------
\* euclid points and vectors (Point2D<f32>, Vector2D<f32>)
\* ---------------------------------------------------------------------
Pt(x, y) == [x |-> x, y |-> y]

V2Add(p, q) == Pt(Add(p.x, q.x), Add(p.y, q.y))

V2Sub(p, q) == Pt(Sub(p.x, q.x), Sub(p.y, q.y))

V2Mul(p, t) == Pt(Mul(p.x, t), Mul(p.y, t))

\* Vector2D::length: square_length().sqrt()
length(v) == Sqrt(Add(Mul(v.x, v.x), Mul(v.y, v.y)))

\* Vector2D::lerp: self * (1 - t) + other * t
lerp(v, other, t) == V2Add(V2Mul(v, Sub(F(1), t)), V2Mul(other, t))

Half == Fe(1, 0 - 1)

Three == F(3)

Six == F(6)

Cubic(from, ctrl1, ctrl2, to) ==
    [from |-> from, ctrl1 |-> ctrl1, ctrl2 |-> ctrl2, to |-> to]

\* a + (b - a) * t
interpolate(a, b, t) == V2Add(a, V2Mul(V2Sub(b, a), t))

\* the two halves, from the points of the de Casteljau construction
split_halves(cubic, ctrl1a, ctrl3a, ctrl1aa, ctrl2aa, ctrl1aaa) ==
    <<Cubic(cubic.from, ctrl1a, ctrl1aa, ctrl1aaa),
      Cubic(ctrl1aaa, ctrl2aa, ctrl3a, cubic.to)>>

split_second(cubic, t, ctrl1a, ctrl3a, ctrl1aa, ctrl2aa) ==
    split_halves(cubic, ctrl1a, ctrl3a, ctrl1aa, ctrl2aa,
                 interpolate(ctrl1aa, ctrl2aa, t))

split_first(cubic, t, ctrl1a, ctrl2a, ctrl3a) ==
    split_second(cubic, t, ctrl1a, ctrl3a,
                 interpolate(ctrl1a, ctrl2a, t), interpolate(ctrl2a, ctrl3a, t))

\* lyon_geom CubicBezierSegment::split(t): de Casteljau, each interpolation
\* computed as a + (b - a) * t.  The halves share the split point and keep
\* the outer end points of the curve.
split(cubic, t) ==
    split_first(cubic, t,
                interpolate(cubic.from, cubic.ctrl1, t),
                interpolate(cubic.ctrl1, cubic.ctrl2, t),
                interpolate(cubic.ctrl2, cubic.to, t))

\* ---------------------------------------------------------------------
\* CubicToQuadraticSegmentIter
\* ---------------------------------------------------------------------
MAX_APPROXIMATION_ITERATIONS == 32

\* Vec::push / Vec::pop: the top of the stack is the end of the sequence
push(vec, item) == Append(vec, item)

pop_peek(vec) == [vec |-> vec, item |-> vec[Len(vec)]]

pop(vec) == [vec |-> SubSeq(vec, 1, Len(vec) - 1), item |-> vec[Len(vec)]]

\* (cubic.from - cubic.ctrl1 * 3.0) + (cubic.ctrl2 * 3.0 - cubic.to)
delta_ctrl_0(cubic) ==
    V2Add(V2Sub(cubic.from, V2Mul(cubic.ctrl1, Three)),
          V2Sub(V2Mul(cubic.ctrl2, Three), cubic.to))

\* (cubic.ctrl1 * 3.0 - cubic.from) + (cubic.to - cubic.ctrl2 * 3.0)
delta_ctrl_1(cubic) ==
    V2Add(V2Sub(V2Mul(cubic.ctrl1, Three), cubic.from),
          V2Sub(cubic.to, V2Mul(cubic.ctrl2, Three)))

\* f32::max(delta_ctrl_1.length(), delta_ctrl_0.length()) / 6.0
max_error(cubic) ==
    Div(Max(length(delta_ctrl_1(cubic)), length(delta_ctrl_0(cubic))), Six)

\* the iterator over the two halves of the cubic, first on top
stacked(first, second, error_bound) ==
    [cubic_curves |-> <<second, first>>,
     error_bound  |-> error_bound,
     iteration    |-> 0]

iter_of_halves(halves, error_bound) == stacked(halves[1], halves[2], error_bound)

new_swapped(cubic, error_bound) ==
    iter_of_halves(<<split(cubic, Half)[2], split(cubic, Half)[1]>>, error_bound)

CubicToQuadraticSegmentIter_new(cubic, error_bound) ==
    iter_of_halves(split(cubic, Half), error_bound)

\* The while loop of next().  Its state is the sub-segment in hand, the
\* stack and the counter, with a tally of what the call has done so far
\* (evals: error evaluations, splits: subdivisions).
loop_enter_reset(cubic, cubic_curves, iteration) ==
    [cubic |-> cubic, cubic_curves |-> cubic_curves, iteration |-> 0,
     evals |-> 0, splits |-> 0, broke |-> FALSE]

loop_enter(cubic, cubic_curves, iteration) ==
    [cubic |-> cubic, cubic_curves |-> cubic_curves, iteration |-> iteration,
     evals |-> 0, splits |-> 0, broke |-> FALSE]

\* the loop runs its body and does not break out of it
subdivides_inverted(st, error_bound) ==
    /\ st.iteration < MAX_APPROXIMATION_ITERATIONS
    /\ \E error \in {max_error(st.cubic)} : Lt(error, error_bound)

subdivides_cap_inclusive(st, error_bound) ==
    /\ st.iteration <= MAX_APPROXIMATION_ITERATIONS
    /\ \E error \in {max_error(st.cubic)} : ~Lt(error, error_bound)

subdivides(st, error_bound) ==
    /\ st.iteration < MAX_APPROXIMATION_ITERATIONS
    /\ \E error \in {max_error(st.cubic)} : ~Lt(error, error_bound)

\* a pass through the body that reaches the split
loop_push(st, halves) ==
    [cubic        |-> halves[1],
     cubic_curves |-> push(st.cubic_curves, halves[2]),
     iteration    |-> st.iteration + 1,
     evals        |-> st.evals + 1,
     splits       |-> st.splits + 1,
     broke        |-> FALSE]

loop_split(st) == loop_push(st, split(st.cubic, Half))

\* leaving the loop: through the break, after the increment, when the
\* counter is still below the cap, and through the loop test otherwise
loop_leave(st) ==
    IF st.iteration < MAX_APPROXIMATION_ITERATIONS
    THEN [st EXCEPT !.iteration = st.iteration + 1, !.evals = st.evals + 1, !.broke = TRUE]
    ELSE st

RECURSIVE approximation_loop(_, _)
approximation_loop(st, error_bound) ==
    IF subdivides(st, error_bound)
    THEN approximation_loop(loop_split(st), error_bound)
    ELSE loop_leave(st)

\* The quadratic built from the sub-segment the loop ended with:
\* approx_ctrl_0 = (ctrl1 * 3.0 - from) * 0.5,
\* approx_ctrl_1 = (ctrl2 * 3.0 - to) * 0.5
approx_quadratic(cubic) ==
    [from |-> cubic.from,
     ctrl |-> lerp(V2Mul(V2Sub(V2Mul(cubic.ctrl1, Three), cubic.from), Half),
                   V2Mul(V2Sub(V2Mul(cubic.ctrl2, Three), cubic.to), Half),
                   Half),
     to   |-> cubic.to]

None == [some |-> FALSE]

Some(v) == [some |-> TRUE, v |-> v]

\* what next() returns once its loop has ended in state l
next_result(self, l) ==
    [self   |-> [cubic_curves |-> l.cubic_curves,
                 error_bound  |-> self.error_bound,
                 iteration    |-> l.iteration],
     ret    |-> Some(approx_quadratic(l.cubic)),
     cubic  |-> Some(l.cubic),
     evals  |-> l.evals,
     splits |-> l.splits,
     broke  |-> l.broke]

next_popped(self, popped) ==
    next_result(self,
                approximation_loop(loop_enter(popped.item, popped.vec, self.iteration),
                                   self.error_bound))

\* next(): the iterator after the call, the returned Option, and a record
\* of what the call did.
next_counting(self) ==
    IF self.cubic_curves = <<>> THEN
        [self |-> [self EXCEPT !.iteration = self.iteration + 1], ret |-> None, cubic |-> None,
         evals |-> 0, splits |-> 0, broke |-> FALSE]
    ELSE next_popped(self, pop(self.cubic_curves))

CubicToQuadraticSegmentIter_next(self) ==
    IF self.cubic_curves = <<>> THEN
        [self |-> self, ret |-> None, cubic |-> None, evals |-> 0, splits |-> 0, broke |-> FALSE]
    ELSE next_popped(self, pop(self.cubic_curves))

\* ---------------------------------------------------------------------
\* ArcToQuadraticSegmentIter
\* ---------------------------------------------------------------------
Quadratic(from, ctrl, to) == [from |-> from, ctrl |-> ctrl, to |-> to]

\* What lyon_geom's Arc::for_each_quadratic_bezier hands to its callback,
\* in generation order.  It makes one piece per started eighth of a turn of
\* sweep; sweep angles are counted here in eighths of a turn, so an arc of
\* sweep n yields n pieces and a zero sweep yields none.  The pieces are a
\* chain along fixed points; their coordinates are not computed from the
\* arc.
ArcPoint(i) == Pt(F(10 + i), F(20 + i * i))

ArcPiece(i) == Quadratic(ArcPoint(i - 1), Pt(F(10 + i), F(20 + i * i - i)), ArcPoint(i))

for_each_quadratic_bezier(arc) == [i \in 1..arc.sweep_angle |-> ArcPiece(i)]

ArcToQuadraticSegmentIter_new(arc) ==
    [segments |-> for_each_quadratic_bezier(arc)]

arc_next_front(self) ==
    IF self.segments = <<>> THEN [self |-> self, ret |-> None]
    ELSE [self |-> [segments |-> Tail(self.segments)], ret |-> Some(Head(self.segments))]

ArcToQuadraticSegmentIter_next(self) ==
    IF self.segments = <<>> THEN [self |-> self, ret |-> None]
    ELSE LET popped == pop(self.segments)
         IN  [self |-> [segments |-> popped.vec], ret |-> Some(popped.item)]

\* ---------------------------------------------------------------------
\* lyon_path PathEvent
\* ---------------------------------------------------------------------
MoveTo(to) == [type |-> "MoveTo", to |-> to]

LineTo(to) == [type |-> "LineTo", to |-> to]

QuadraticTo(ctrl, to) == [type |-> "QuadraticTo", ctrl |-> ctrl, to |-> to]

CubicTo(ctrl1, ctrl2, to) == [type |-> "CubicTo", ctrl1 |-> ctrl1, ctrl2 |-> ctrl2, to |-> to]

Close == [type |-> "Close"]

ArcEvent(to, vector, angle_from, angle_to) ==
    [type |-> "Arc", to |-> to, vector |-> vector,
     angle_from |-> angle_from, angle_to |-> angle_to]

\* ---------------------------------------------------------------------
\* CubicToQuadraticTransformer
\* ---------------------------------------------------------------------
\* Box<dyn Iterator<Item = QuadraticBezierSegment<f32>>>: the boxed value
\* and which implementation it dispatches to
BoxCubic(it) == [impl |-> "CubicToQuadraticSegmentIter", it |-> it]

BoxArc(it) == [impl |-> "ArcToQuadraticSegmentIter", it |-> it]

reboxed_cubic(r) == [self |-> BoxCubic(r.self), ret |-> r.ret]

reboxed_arc(r) == [self |-> BoxArc(r.self), ret |-> r.ret]

boxed_next(box) ==
    IF box.impl = "CubicToQuadraticSegmentIter"
    THEN reboxed_cubic(CubicToQuadraticSegmentIter_next(box.it))
    ELSE reboxed_arc(ArcToQuadraticSegmentIter_next(box.it))

\* segments the boxed iterator still holds
unemitted(segment_iter) ==
    IF ~segment_iter.some THEN 0
    ELSE IF segment_iter.v.impl = "CubicToQuadraticSegmentIter"
    THEN Len(segment_iter.v.it.cubic_curves)
    ELSE Len(segment_iter.v.it.segments)

CubicToQuadraticTransformer_new(inner, error_bound) ==
    [inner        |-> inner,
     segment_iter |-> None,
     last_point   |-> Pt(Zero, Zero),
     error_bound  |-> error_bound]

\* (to - last_point).angle_from_x_axis() - angle_from, kept symbolic
start_angle_of(to, last_point, angle_from) ==
    [of |-> V2Sub(to, last_point), minus |-> angle_from]

\* next() gives the transformer after the call, the returned
\* Option<PathEvent>, and the segment taken from the boxed iterator when
\* the returned event was built from one.
RECURSIVE CubicToQuadraticTransformer_next(_)

\* the if-let at the head of next(): the boxed iterator's next(), when
\* there is a boxed iterator
drain(self) ==
    IF self.segment_iter.some
    THEN boxed_next(self.segment_iter.v)
    ELSE [self |-> None, ret |-> None]

\* the event returned for a drained segment
drained_event(quadratic) == QuadraticTo(quadratic.ctrl, quadratic.to)

\* The arms of the match on self.inner.next().  self is the transformer
\* the event was pulled from and rest is self after the pull, with
\* segment_iter cleared.
arm_cubic_to_verbatim(self, rest, event) ==
    [self |-> [rest EXCEPT !.last_point = event.to],
     ret  |-> Some(CubicTo(event.ctrl1, event.ctrl2, event.to)),
     segment |-> None]

arm_cubic_to(self, rest, event) ==
    LET cubic == Cubic(self.last_point, event.ctrl1, event.ctrl2, event.to)
    IN  CubicToQuadraticTransformer_next(
            [rest EXCEPT
                !.last_point = event.to,
                !.segment_iter = Some(BoxCubic(
                    CubicToQuadraticSegmentIter_new(cubic, self.error_bound)))])

arm_move_to_untracked(rest, event) ==
    [self |-> rest,
     ret  |-> Some(MoveTo(event.to)),
     segment |-> None]

arm_move_to(rest, event) ==
    [self |-> [rest EXCEPT !.last_point = event.to],
     ret  |-> Some(MoveTo(event.to)),
     segment |-> None]

arm_line_to_as_move(rest, event) ==
    [self |-> [rest EXCEPT !.last_point = event.to],
     ret  |-> Some(MoveTo(event.to)),
     segment |-> None]

arm_line_to(rest, event) ==
    [self |-> [rest EXCEPT !.last_point = event.to],
     ret  |-> Some(LineTo(event.to)),
     segment |-> None]

arm_quadratic_to_swapped(rest, event) ==
    [self |-> [rest EXCEPT !.last_point = event.to],
     ret  |-> Some(QuadraticTo(event.to, event.ctrl)),
     segment |-> None]

arm_quadratic_to(rest, event) ==
    [self |-> [rest EXCEPT !.last_point = event.to],
     ret  |-> Some(QuadraticTo(event.ctrl, event.to)),
     segment |-> None]

arm_close_reset(rest) ==
    [self |-> [rest EXCEPT !.last_point = Pt(Zero, Zero)],
     ret  |-> Some(Close),
     segment |-> None]

arm_close(rest) == [self |-> rest, ret |-> Some(Close), segment |-> None]

arm_arc(self, rest, event) ==
    LET arc == [center      |-> event.to,
                radii       |-> event.vector,
                start_angle |-> start_angle_of(event.to, self.last_point,
                                               event.angle_from),
                sweep_angle |-> event.angle_to,
                x_rotation  |-> event.angle_from]
    IN  CubicToQuadraticTransformer_next(
            [rest EXCEPT
                !.last_point = event.to,
                !.segment_iter = Some(BoxArc(ArcToQuadraticSegmentIter_new(arc)))])

\* the match on self.inner.next(), after self.segment_iter = None
pull(self, rest) ==
    IF self.inner = <<>> THEN [self |-> rest, ret |-> None, segment |-> None]
    ELSE CASE Head(self.inner).type = "CubicTo"     -> arm_cubic_to(self, [rest EXCEPT !.inner = Tail(self.inner)], Head(self.inner))
           [] Head(self.inner).type = "MoveTo"      -> arm_move_to([rest EXCEPT !.inner = Tail(self.inner)], Head(self.inner))
           [] Head(self.inner).type = "LineTo"      -> arm_line_to([rest EXCEPT !.inner = Tail(self.inner)], Head(self.inner))
           [] Head(self.inner).type = "QuadraticTo" -> arm_quadratic_to([rest EXCEPT !.inner = Tail(self.inner)], Head(self.inner))
           [] Head(self.inner).type = "Close"       -> arm_close([rest EXCEPT !.inner = Tail(self.inner)])
           [] Head(self.inner).type = "Arc"         -> arm_arc(self, [rest EXCEPT !.inner = Tail(self.inner)], Head(self.inner))

\* next() once the boxed iterator has answered
next_drained(self, drained) ==
    IF drained.ret.some THEN
        [self |-> [self EXCEPT !.segment_iter = Some(drained.self)],
         ret  |-> Some(drained_event(drained.ret.v)),
         segment |-> Some(drained.ret.v)]
    ELSE pull(self, [self EXCEPT !.segment_iter = None])

CubicToQuadraticTransformer_next(self) == next_drained(self, drain(self))

\* ---------------------------------------------------------------------
\* Inputs
\* ---------------------------------------------------------------------
P(x, y) == Pt(F(x), F(y))

\* collinear, evenly spaced control points: d0 = d1 = 0
cubic_line == Cubic(P(0, 0), P(1, 0), P(2, 0), P(3, 0))

\* all four points equal
cubic_point == Cubic(P(1, 1), P(1, 1), P(1, 1), P(1, 1))

\* the arch (0,0) (0,1) (1,1) (1,0)
cubic_arch == Cubic(P(0, 0), P(0, 1), P(1, 1), P(1, 0))

\* a curve that doubles back on the y axis
cubic_fold == Cubic(P(0, 0), P(0, 3), P(0, 0), P(0, 3))

\* a long cusp: three coincident points and an end point at 2^40
cubic_cusp == Cubic(P(0, 0), P(0, 0), P(0, 0), Pt(Fe(1, 40), F(0)))

\* a general curve that does not start at the origin
cubic_wave == Cubic(P(3, 1), P(0, 2), P(2, 3), P(1, 0))

Cubics == {cubic_line, cubic_point, cubic_arch, cubic_fold, cubic_cusp, cubic_wave}

\* 0.01f32 = 5368709 * 2^-29
ErrorBounds == {Fe(1, 0 - 70), Fe(1, 0 - 29), Fe(1, 0 - 28), Fe(5368709, 0 - 29), F(1)}

\* error bounds of any sign
AnyBounds == ErrorBounds \cup {Zero, F(0 - 1)}

\* pairs of error bounds e1 <= e2
BoundPairs == {p \in ErrorBounds \X ErrorBounds : p[1] = p[2] \/ Lt(p[1], p[2])}

\* path events of the input streams
Events ==
    {MoveTo(P(1, 1)),
     LineTo(P(2, 0)),
     QuadraticTo(P(0, 1), P(1, 2)),
     Close,
     CubicTo(P(0, 1), P(1, 1), P(1, 0)),
     ArcEvent(P(2, 2), P(1, 1), F(0), 0),
     ArcEvent(P(2, 2), P(1, 1), F(0), 2)}

\* longest input stream
MaxEvents == 3

Streams == UNION {[1..n -> Events] : n \in 0..MaxEvents}

TransformerBounds == {Fe(5368709, 0 - 29), F(1)}

\* next() calls the driver makes on one iterator, in all and after the
\* first None
MaxCalls == 37

ExtraCalls == 2

\* ---------------------------------------------------------------------
\* State
\* ---------------------------------------------------------------------
VARIABLES
    input,        \* the cubic the segment iterators were built from
    iter,         \* a CubicToQuadraticSegmentIter
    yielded,      \* what its next() calls returned so far, in order
    exhausted,    \* one of its next() calls has returned None
    calls,        \* number of next() calls made on it
    iter2,        \* a second CubicToQuadraticSegmentIter over the same cubic
    yielded2,
    exhausted2,
    transformer,  \* a CubicToQuadraticTransformer
    source,       \* the whole event stream behind transformer.inner
    emitted,      \* the events its next() calls returned so far, in order
    finished      \* one of its next() calls has returned None

iterVars == <<input, iter, yielded, exhausted, calls>>

iter2Vars == <<iter2, yielded2, exhausted2>>

transformerVars == <<transformer, source, emitted, finished>>

vars == <<input, iter, yielded, exhausted, calls, iter2, yielded2, exhausted2,
          transformer, source, emitted, finished>>

\* a yielded segment, with what the call that yielded it did: the
\* sub-segment it was computed from, the counter when it returned, the
\* error evaluations and subdivisions it made, whether its loop ended in
\* the break, and the stack size afterwards
Yield(r) ==
    [from |-> r.ret.v.from, ctrl |-> r.ret.v.ctrl, to |-> r.ret.v.to,
     cubic |-> r.cubic.v, iteration |-> r.self.iteration,
     evals |-> r.evals, splits |-> r.splits, broke |-> r.broke]

NoIter == [cubic_curves |-> <<>>, error_bound |-> Zero, iteration |-> 0]

NoIter2 ==
    /\ iter2 = NoIter
    /\ yielded2 = <<>>
    /\ exhausted2 = FALSE

NoTransformer ==
    /\ transformer = CubicToQuadraticTransformer_new(<<>>, Zero)
    /\ source = <<>>
    /\ emitted = <<>>
    /\ finished = FALSE

InitIter ==
    /\ input \in Cubics
    /\ \E error_bound \in AnyBounds :
           iter = CubicToQuadraticSegmentIter_new(input, error_bound)
    /\ yielded = <<>>
    /\ exhausted = FALSE
    /\ calls = 0
    /\ NoIter2
    /\ NoTransformer

\* the driver makes one more call on iter
Calling ==
    /\ calls < MaxCalls
    /\ exhausted => calls < Len(yielded) + 1 + ExtraCalls
    /\ calls' = calls + 1

\* one call of next() on iter
CallNext ==
    /\ Calling
    /\ \E r \in {CubicToQuadraticSegmentIter_next(iter)} :
           /\ iter' = r.self
           /\ yielded' = IF r.ret.some THEN Append(yielded, Yield(r)) ELSE yielded
           /\ exhausted' = (exhausted \/ ~r.ret.some)
    /\ UNCHANGED <<input, iter2Vars, transformerVars>>

NextIter == CallNext

SpecIter == InitIter /\ [][NextIter]_vars

\* the caller drains the iterator: a call that the driver can make is
\* made; every step that counts a call is a CallNext step
FairSpecIter == SpecIter /\ WF_calls(Calling)

\* two iterators over the same cubic, the second with the larger bound
InitPair ==
    /\ input \in Cubics
    /\ \E p \in BoundPairs :
           /\ iter = CubicToQuadraticSegmentIter_new(input, p[1])
           /\ iter2 = CubicToQuadraticSegmentIter_new(input, p[2])
    /\ yielded = <<>>
    /\ exhausted = FALSE
    /\ calls = 0
    /\ yielded2 = <<>>
    /\ exhausted2 = FALSE
    /\ NoTransformer

\* one call of next() on iter2, made once iter is drained
CallNext2 ==
    /\ exhausted
    /\ ~exhausted2
    /\ Len(yielded2) < MaxCalls
    /\ \E r \in {CubicToQuadraticSegmentIter_next(iter2)} :
           /\ iter2' = r.self
           /\ yielded2' = IF r.ret.some THEN Append(yielded2, Yield(r)) ELSE yielded2
           /\ exhausted2' = ~r.ret.some
    /\ UNCHANGED <<iterVars, transformerVars>>

\* the calls on iter up to its first None
CallNext1 == ~exhausted /\ CallNext

NextPair == CallNext1 \/ CallNext2

SpecPair == InitPair /\ [][NextPair]_vars

InitTransformer ==
    /\ source \in Streams
    /\ \E error_bound \in TransformerBounds :
           transformer = CubicToQuadraticTransformer_new(source, error_bound)
    /\ emitted = <<>>
    /\ finished = FALSE
    /\ input = cubic_point
    /\ iter = NoIter
    /\ yielded = <<>>
    /\ exhausted = FALSE
    /\ calls = 0
    /\ NoIter2

\* an emitted event, with the number of source events pulled when it was
\* returned, whether the call pulled none, the segment it was built from
\* and last_point when the call returned
Emit(r, self) ==
    [event |-> r.ret.v,
     pulled |-> Len(source) - Len(r.self.inner),
     drained |-> r.self.inner = self.inner,
     segment |-> r.segment,
     last_point |-> r.self.last_point]

\* one call of next() on transformer
CallTransformerNext ==
    /\ \E r \in {CubicToQuadraticTransformer_next(transformer)} :
           /\ transformer' = r.self
           /\ emitted' = IF r.ret.some THEN Append(emitted, Emit(r, transformer)) ELSE emitted
           /\ finished' = (finished \/ ~r.ret.some)
    /\ UNCHANGED <<source, iterVars, iter2Vars>>

NextTransformer == CallTransformerNext

SpecTransformer == InitTransformer /\ [][NextTransformer]_vars

Spec == SpecIter

\* ---------------------------------------------------------------------
\* Properties
\* ---------------------------------------------------------------------
\* n <= 2^k
RECURSIVE LeqPow2(_, _)
LeqPow2(n, k) == IF k = 0 THEN n <= 1 ELSE LeqPow2((n + 1) \div 2, k - 1)

Positive(error_bound) == Lt(Zero, error_bound)

\* C1: for any cubic and any error bound > 0, repeated next() calls on one
\* iterator reach exhaustion after finitely many yielded segments, at most
\* 2^MAX_APPROXIMATION_ITERATIONS of them, and the loop of every single
\* call runs at most MAX_APPROXIMATION_ITERATIONS times.
C1_Terminates ==
    /\ <>exhausted
    /\ [](Positive(iter.error_bound) =>
             /\ LeqPow2(Len(yielded), MAX_APPROXIMATION_ITERATIONS)
             /\ \A i \in 1..Len(yielded) :
                    yielded[i].evals <= MAX_APPROXIMATION_ITERATIONS)

C1_Witness ==
    /\ exhausted
    /\ Positive(iter.error_bound)
    /\ Len(yielded) = MAX_APPROXIMATION_ITERATIONS + 2
    /\ yielded[1].evals = MAX_APPROXIMATION_ITERATIONS

\* C2: the whole sequence yielded for one cubic is endpoint-continuous:
\* it starts at input.from, each segment starts where the one before it
\* ends, and it ends at input.to, whether or not the cap was hit.
C2_Continuous ==
    exhausted =>
        /\ Len(yielded) >= 1
        /\ yielded[1].from = input.from
        /\ \A i \in 1..(Len(yielded) - 1) : yielded[i].to = yielded[i + 1].from
        /\ yielded[Len(yielded)].to = input.to

C2_Witness ==
    /\ exhausted
    /\ iter.iteration = MAX_APPROXIMATION_ITERATIONS
    /\ Len(yielded) >= 3
    /\ \A i \in 1..Len(yielded) : yielded[i].from # yielded[i].to

\* C3: every event the transformer returns is a MoveTo, LineTo,
\* QuadraticTo or Close; a CubicTo or an Arc is never returned.
C3_OutputKinds ==
    \A i \in 1..Len(emitted) :
        emitted[i].event.type \in {"MoveTo", "LineTo", "QuadraticTo", "Close"}

C3_Witness ==
    /\ finished
    /\ \E i \in 1..Len(source) : source[i].type = "CubicTo"
    /\ \E i \in 1..Len(source) : source[i].type = "Arc" /\ source[i].angle_to > 0
    /\ Len(emitted) > Len(source)

IsCurve(event) == event.type \in {"CubicTo", "Arc"}

\* the events returned while the i-th source event was the last one pulled
EmittedFor(i) == {j \in 1..Len(emitted) : emitted[j].pulled = i}

\* C4: every CubicTo and every Arc of the source is replaced by one or
\* more QuadraticTo events, never by none, so the drained output has at
\* least as many events as the source.
C4_NeverSkipped ==
    finished =>
        /\ \A i \in 1..Len(source) :
               IsCurve(source[i]) =>
                   /\ EmittedFor(i) # {}
                   /\ \A j \in EmittedFor(i) : emitted[j].event.type = "QuadraticTo"
        /\ Len(emitted) >= Len(source)

\* C5: the output keeps the source order: the events returned for one
\* source event form one run, the runs follow each other in source order,
\* a curve's run holds only QuadraticTo events, every other source event
\* is returned exactly once and verbatim, and the transformer never pulls
\* a source event while the boxed iterator still holds segments.
C5_OrderKept ==
    /\ [](/\ \A j \in 1..(Len(emitted) - 1) : emitted[j].pulled <= emitted[j + 1].pulled
          /\ \A j \in 1..Len(emitted) :
                 /\ emitted[j].pulled \in 1..Len(source)
                 /\ IF IsCurve(source[emitted[j].pulled])
                    THEN emitted[j].event.type = "QuadraticTo"
                    ELSE emitted[j].event = source[emitted[j].pulled]
          /\ \A i \in 1..(Len(source) - Len(transformer.inner)) :
                 ~IsCurve(source[i]) => Cardinality(EmittedFor(i)) = 1)
    /\ [][Len(transformer'.inner) < Len(transformer.inner)
              => unemitted(transformer.segment_iter) = 0]_vars

C5_Witness ==
    /\ finished
    /\ Len(source) = 3
    /\ IsCurve(source[2])
    /\ ~IsCurve(source[1])
    /\ ~IsCurve(source[3])
    /\ Cardinality(EmittedFor(2)) >= 2

OnlyPlain(events) ==
    \A i \in 1..Len(events) : events[i].type \in {"MoveTo", "LineTo", "Close"}

\* C6: a transformer fed only MoveTo, LineTo and Close events returns
\* exactly that stream, event for event, and then None.
C6_Identity ==
    OnlyPlain(source) =>
        /\ Len(emitted) <= Len(source)
        /\ \A i \in 1..Len(emitted) : emitted[i].event = source[i]
        /\ finished => Len(emitted) = Len(source)

C6_Witness ==
    /\ finished
    /\ OnlyPlain(source)
    /\ {source[i].type : i \in 1..Len(source)} = {"MoveTo", "LineTo", "Close"}

ZeroVector(v) == IsZero(v.x) /\ IsZero(v.y)

\* d0 = d1 = 0
ZeroDeviation(cubic) ==
    ZeroVector(delta_ctrl_0(cubic)) /\ ZeroVector(delta_ctrl_1(cubic))

\* C7 as stated: a cubic with d0 = d1 = 0, with an error bound > 0, yields
\* exactly one segment before None.
C7_OneSegment ==
    (exhausted /\ ZeroDeviation(input) /\ Positive(iter.error_bound))
        => Len(yielded) = 1

\* C7 amended: a cubic with d0 = d1 = 0 whose two halves under split(0.5)
\* have d0 = d1 = 0 as well, with an error bound > 0, yields exactly two
\* segments before None, the two halves, each after a single evaluation.
C7_TwoSegments ==
    (/\ exhausted
     /\ ZeroDeviation(input)
     /\ ZeroDeviation(split(input, Half)[1])
     /\ ZeroDeviation(split(input, Half)[2])
     /\ Positive(iter.error_bound))
        => /\ Len(yielded) = 2
           /\ yielded[1].cubic = split(input, Half)[1]
           /\ yielded[2].cubic = split(input, Half)[2]
           /\ \A i \in 1..2 : yielded[i].evals = 1 /\ yielded[i].splits = 0

C7_Witness ==
    /\ exhausted
    /\ ZeroDeviation(input)
    /\ ZeroDeviation(split(input, Half)[1])
    /\ ZeroDeviation(split(input, Half)[2])
    /\ Positive(iter.error_bound)
    /\ input.from # input.to
    /\ Len(yielded) = 2

\* C8: for every yielded segment, the sub-segment it was computed from
\* has max_error < error_bound, or the counter equals the cap when the
\* segment is returned.
C8_BelowBoundOrCap ==
    \A i \in 1..Len(yielded) :
        \/ Lt(max_error(yielded[i].cubic), iter.error_bound)
        \/ yielded[i].iteration = MAX_APPROXIMATION_ITERATIONS

C8_Witness ==
    /\ \E i \in 1..Len(yielded) :
           /\ Lt(max_error(yielded[i].cubic), iter.error_bound)
           /\ yielded[i].iteration < MAX_APPROXIMATION_ITERATIONS
    /\ \E i \in 1..Len(yielded) :
           /\ ~Lt(max_error(yielded[i].cubic), iter.error_bound)
           /\ yielded[i].iteration = MAX_APPROXIMATION_ITERATIONS

\* no call has left its loop through the break
NeverPassed == \A i \in 1..Len(yielded) : ~yielded[i].broke

\* C9 as stated: when no sub-segment ever passes the error check, the
\* number of yielded segments is at most the cap, 32.
C9_AtMostCap ==
    (exhausted /\ Positive(iter.error_bound) /\ NeverPassed)
        => Len(yielded) <= MAX_APPROXIMATION_ITERATIONS

\* C9 amended: when no sub-segment ever passes the error check, the number
\* of yielded segments is at most the cap plus two, 34.
C9_AtMostCapPlusTwo ==
    (exhausted /\ Positive(iter.error_bound) /\ NeverPassed)
        => Len(yielded) <= MAX_APPROXIMATION_ITERATIONS + 2

C9_Witness ==
    /\ exhausted
    /\ Positive(iter.error_bound)
    /\ NeverPassed
    /\ Len(yielded) = MAX_APPROXIMATION_ITERATIONS + 2

BothDrained ==
    /\ exhausted
    /\ exhausted2
    /\ Positive(iter.error_bound)
    /\ ~Lt(iter2.error_bound, iter.error_bound)

\* C10 as stated: for the same cubic and error bounds e1 <= e2, the
\* iterator built with e2 never yields more segments than the one built
\* with e1.
C10_Monotone == BothDrained => Len(yielded2) <= Len(yielded)

\* C10 amended: the same, provided every segment yielded with e1 left its
\* loop through the break, that is, the cap never forced a segment out of
\* the run with e1.
C10_MonotoneBelowCap ==
    (BothDrained /\ \A i \in 1..Len(yielded) : yielded[i].broke)
        => Len(yielded2) <= Len(yielded)

C10_Witness ==
    /\ BothDrained
    /\ \A i \in 1..Len(yielded) : yielded[i].broke
    /\ Len(yielded) > 2
    /\ Len(yielded2) < Len(yielded)
\* the events returned for the i-th source event, in the order returned
RunOf(i) ==
    LET of_i(e) == e.pulled = i
    IN  SelectSeq(emitted, of_i)

\* nothing more will be returned for the i-th source event
RunDone(i) == finished \/ Len(source) - Len(transformer.inner) > i

\* what the decomposition generates for the arc event, in generation order
Generated(event) == for_each_quadratic_bezier([sweep_angle |-> event.angle_to])

\* C11: for an arc whose decomposition generates s[1..n], the j-th segment
\* taken from the ArcToQuadraticSegmentIter is s[n+1-j], the transformer
\* returns it as QuadraticTo(ctrl, to), and once the arc is drained exactly
\* n events have been returned for it.
C11_ArcReversed ==
    \A i \in 1..Len(source) :
        source[i].type = "Arc" =>
            /\ Len(RunOf(i)) <= Len(Generated(source[i]))
            /\ \A j \in 1..Len(RunOf(i)) :
                   /\ RunOf(i)[j].segment =
                          Some(Generated(source[i])[Len(Generated(source[i])) + 1 - j])
                   /\ RunOf(i)[j].event =
                          QuadraticTo(RunOf(i)[j].segment.v.ctrl, RunOf(i)[j].segment.v.to)
            /\ RunDone(i) => Len(RunOf(i)) = Len(Generated(source[i]))

C11_Witness ==
    /\ finished
    /\ \E i \in 1..Len(source) :
           /\ source[i].type = "Arc"
           /\ Len(Generated(source[i])) >= 2
           /\ Len(RunOf(i)) = Len(Generated(source[i]))
           /\ RunOf(i)[1].segment.v # RunOf(i)[2].segment.v

\* C12: for one arc event whose decomposition is endpoint-continuous and
\* spans the arc, the segments in the order they are emitted are
\* continuous: each emitted to is the next emitted from, the first emitted
\* from is the start of the arc and the last emitted to its end.
C12_ArcContinuous ==
    \A i \in 1..Len(source) :
        (/\ source[i].type = "Arc"
         /\ RunDone(i)
         /\ Len(RunOf(i)) >= 1
         /\ Len(RunOf(i)) = Len(Generated(source[i])))
            => /\ RunOf(i)[1].segment.v.from = Generated(source[i])[1].from
               /\ \A j \in 1..(Len(RunOf(i)) - 1) :
                      RunOf(i)[j].segment.v.to = RunOf(i)[j + 1].segment.v.from
               /\ RunOf(i)[Len(RunOf(i))].segment.v.to =
                      Generated(source[i])[Len(Generated(source[i]))].to
\* C13: each next() call either yields exactly one segment or signals
\* exhaustion, and once a call has signalled exhaustion every later call
\* signals exhaustion too, yields nothing, leaves the pending stack empty
\* and leaves the iteration counter as it was.
C13_NonRestartable ==
    [][/\ \/ Len(yielded') = Len(yielded) + 1 /\ exhausted' = exhausted
          \/ yielded' = yielded /\ exhausted'
       /\ exhausted =>
              /\ exhausted'
              /\ yielded' = yielded
              /\ iter.cubic_curves = <<>>
              /\ iter'.cubic_curves = <<>>
              /\ iter'.iteration = iter.iteration]_vars

C13_Witness ==
    /\ exhausted
    /\ calls = Len(yielded) + 1 + ExtraCalls
    /\ iter.cubic_curves = <<>>
    /\ iter.iteration > 0
\* C14: whenever the transformer returns a QuadraticTo built from a
\* segment of the draining iterator (cubic or arc), last_point equals that
\* segment's end point when the call returns; in particular this holds at
\* the last segment of an arc.
C14_LastPointFollows ==
    \A j \in 1..Len(emitted) :
        emitted[j].segment.some =>
            emitted[j].last_point = emitted[j].segment.v.to
\* C15: a call that pulls a Close event returns Close and leaves last_point
\* as it was, so a CubicTo that directly follows the Close starts from the
\* point that was current before the Close.
C15_CloseKeepsPoint ==
    /\ [][(/\ Len(transformer.inner) >= 1
           /\ Head(transformer.inner).type = "Close"
           /\ Len(transformer'.inner) = Len(transformer.inner) - 1)
              => /\ transformer'.last_point = transformer.last_point
                 /\ Len(emitted') = Len(emitted) + 1
                 /\ emitted'[Len(emitted')].event = Close]_vars
    /\ [](\A j \in 1..(Len(emitted) - 1) :
              (/\ emitted[j].event.type = "Close"
               /\ emitted[j + 1].pulled = emitted[j].pulled + 1
               /\ source[emitted[j + 1].pulled].type = "CubicTo")
                  => /\ emitted[j + 1].segment.some
                     /\ emitted[j + 1].segment.v.from = emitted[j].last_point)

C15_Witness ==
    /\ finished
    /\ Len(source) = 3
    /\ source[1].type = "MoveTo"
    /\ source[2].type = "Close"
    /\ source[3].type = "CubicTo"
    /\ emitted[2].event = Close
    /\ emitted[2].last_point = source[1].to
    /\ emitted[3].segment.v.from = source[1].to
    /\ source[1].to # Pt(Zero, Zero)
\* subdivisions made by the calls that yielded the first n segments
RECURSIVE SplitsUpTo(_)
SplitsUpTo(n) == IF n = 0 THEN 0 ELSE SplitsUpTo(n - 1) + yielded[n].splits

\* C16: the iteration counter of one iterator is shared by all its next()
\* calls: it is 0 before the first call, never decreases (it is not reset
\* between sub-segments), never exceeds 32, and the subdivisions made by
\* all calls together number at most 32.
C16_SharedCounter ==
    /\ [](/\ calls = 0 => iter.iteration = 0
          /\ iter.iteration <= MAX_APPROXIMATION_ITERATIONS
          /\ \A i \in 1..Len(yielded) :
                 /\ yielded[i].iteration <= iter.iteration
                 /\ i > 1 => yielded[i - 1].iteration <= yielded[i].iteration
          /\ SplitsUpTo(Len(yielded)) <= iter.iteration
          /\ SplitsUpTo(Len(yielded)) <= MAX_APPROXIMATION_ITERATIONS)
    /\ [][iter'.iteration >= iter.iteration]_vars

C16_Witness ==
    /\ exhausted
    /\ iter.iteration = MAX_APPROXIMATION_ITERATIONS
    /\ SplitsUpTo(Len(yielded)) < MAX_APPROXIMATION_ITERATIONS
    /\ \E i \in 2..Len(yielded) :
           /\ yielded[i].splits > 0
           /\ yielded[i - 1].iteration > 0
\* the sub-segment the next call pops
Top_of_stack == iter.cubic_curves[Len(iter.cubic_curves)]

\* C17: when the sub-segment on top of the stack has zero deviation, the
\* error bound is > 0 and the counter is below the cap, the call that pops
\* it passes the error check on its first evaluation: one increment of the
\* counter, no split, nothing pushed, and the yielded segment has the end
\* points of that sub-segment.
C17_ZeroDeviationPasses ==
    [][(/\ iter.cubic_curves # <<>>
        /\ ZeroDeviation(Top_of_stack)
        /\ Positive(iter.error_bound)
        /\ iter.iteration < MAX_APPROXIMATION_ITERATIONS)
           => /\ iter'.iteration = iter.iteration + 1
              /\ iter'.cubic_curves = SubSeq(iter.cubic_curves, 1, Len(iter.cubic_curves) - 1)
              /\ Len(yielded') = Len(yielded) + 1
              /\ yielded'[Len(yielded')].evals = 1
              /\ yielded'[Len(yielded')].splits = 0
              /\ yielded'[Len(yielded')].broke
              /\ yielded'[Len(yielded')].from = Top_of_stack.from
              /\ yielded'[Len(yielded')].to = Top_of_stack.to]_vars

C17_Witness ==
    /\ Positive(iter.error_bound)
    /\ \E i \in 1..Len(yielded) :
           /\ ZeroDeviation(yielded[i].cubic)
           /\ yielded[i].evals = 1
           /\ yielded[i].splits = 0
           /\ yielded[i].from # yielded[i].to
           /\ yielded[i].from = yielded[i].cubic.from
           /\ yielded[i].to = yielded[i].cubic.to
\* C18: in every state of one iterator, segments yielded + pending stack
\* size = 2 + subdivisions made so far, and subdivisions <= counter <= 32;
\* hence a drained iterator has yielded between 2 and 34 segments, for any
\* deviations and any error bound, positive or not; and once the counter
\* equals the cap every pending sub-segment is yielded as it is, with no
\* further evaluation or split.
C18_Accounting ==
    /\ Len(yielded) + Len(iter.cubic_curves) = 2 + SplitsUpTo(Len(yielded))
    /\ SplitsUpTo(Len(yielded)) <= iter.iteration
    /\ iter.iteration <= MAX_APPROXIMATION_ITERATIONS
    /\ exhausted =>
           /\ Len(yielded) >= 2
           /\ Len(yielded) <= MAX_APPROXIMATION_ITERATIONS + 2
    /\ \A i \in 2..Len(yielded) :
           yielded[i - 1].iteration = MAX_APPROXIMATION_ITERATIONS =>
               /\ yielded[i].evals = 0
               /\ yielded[i].splits = 0
               /\ yielded[i].iteration = MAX_APPROXIMATION_ITERATIONS

C18_Witness ==
    /\ exhausted
    /\ ~Positive(iter.error_bound)
    /\ Len(yielded) = MAX_APPROXIMATION_ITERATIONS + 2
    /\ SplitsUpTo(Len(yielded)) = MAX_APPROXIMATION_ITERATIONS
    /\ yielded[2].evals = 0
\* Parameter ranges.  A sub-segment is named by the halves taken from the
\* original cubic to reach it, 0 for a first half and 1 for a second half:
\* the path <<b1, ..., bk>> is the range [0.b1...bk, 0.b1...bk + 2^-k] in
\* binary.  new() stacks the halves <<1>> and <<0>>; a call that pops p and
\* splits k times pushes p.1, p.0.1, ..., p.0^(k-1).1 and yields p.0^k.
PathsPushed(p, k) == [j \in 1..k |-> p \o [i \in 1..j |-> IF i = j THEN 1 ELSE 0]]

PathsReplay(paths, k) ==
    SubSeq(paths, 1, Len(paths) - 1) \o PathsPushed(paths[Len(paths)], k)

\* the paths of the stack after the call that yielded the n-th segment
RECURSIVE PathsAfter(_)
PathsAfter(n) ==
    IF n = 0 THEN << <<1>>, <<0>> >>
    ELSE PathsReplay(PathsAfter(n - 1), yielded[n].splits)

\* the path of the n-th yielded segment
YieldedPath(n) ==
    LET paths == PathsAfter(n - 1)
    IN  paths[Len(paths)] \o [i \in 1..yielded[n].splits |-> 0]

\* the path without its trailing bits equal to bit
Stripped(path, bit) ==
    SubSeq(path, 1, Cardinality({i \in 1..Len(path) : \E j \in i..Len(path) : path[j] # bit}))

\* the range of a ends where the range of b starts
Adjacent(a, b) ==
    LET sa == Stripped(a, 1)
        sb == Stripped(b, 0)
    IN  /\ Len(sa) = Len(sb)
        /\ Len(sa) >= 1
        /\ sa[Len(sa)] = 0
        /\ sb[Len(sb)] = 1
        /\ SubSeq(sa, 1, Len(sa) - 1) = SubSeq(sb, 1, Len(sb) - 1)

\* C19: between next() calls the pending stack, read from top to bottom,
\* is a left-to-right chain of sub-segments of the original cubic: the
\* top starts where the last yielded segment ends (at input.from when
\* nothing was yielded), each entry ends where the entry below it starts,
\* the bottom ends at input.to; and the parameter ranges of the entries
\* follow each other in the same way up to 1, so no two of them overlap.
C19_StackChain ==
    LET stack == iter.cubic_curves
        n     == Len(iter.cubic_curves)
        paths == PathsAfter(Len(yielded))
    IN  /\ Len(paths) = n
        /\ n >= 1 =>
               /\ stack[n].from =
                      (IF yielded = <<>> THEN input.from ELSE yielded[Len(yielded)].to)
               /\ stack[1].to = input.to
               /\ IF yielded = <<>> THEN Stripped(paths[n], 0) = <<>>
                  ELSE Adjacent(YieldedPath(Len(yielded)), paths[n])
               /\ Stripped(paths[1], 1) = <<>>
        /\ \A i \in 2..n :
               /\ stack[i].to = stack[i - 1].from
               /\ Adjacent(paths[i], paths[i - 1])

C19_Witness ==
    /\ Len(iter.cubic_curves) >= 4
    /\ Len(yielded) >= 2
    /\ yielded[Len(yielded)].splits >= 2
    /\ \A i \in 1..Len(iter.cubic_curves) :
           iter.cubic_curves[i].from # iter.cubic_curves[i].to
    /\ Len(PathsAfter(Len(yielded))[Len(iter.cubic_curves)]) >= 3
\* the to point of the most recent event among the first i source events
\* that is not a Close, or the origin when there is none
RECURSIVE PrevPoint(_)
PrevPoint(i) ==
    IF i = 0 THEN Pt(Zero, Zero)
    ELSE IF source[i].type = "Close" THEN PrevPoint(i - 1)
    ELSE source[i].to

\* C20: the cubic built for a CubicTo event starts at the to point of the
\* most recent preceding MoveTo, LineTo, QuadraticTo, CubicTo or Arc event
\* (Close events are passed over), or at the origin when there is none,
\* however many segments the curve before it expanded into.
C20_CubicStart ==
    \A i \in 1..Len(source) :
        (source[i].type = "CubicTo" /\ RunOf(i) # <<>>)
            => /\ RunOf(i)[1].segment.some
               /\ RunOf(i)[1].segment.v.from = PrevPoint(i - 1)

C20_Witness ==
    /\ finished
    /\ Len(source) = 3
    /\ source[1].type = "CubicTo"
    /\ source[2].type = "Close"
    /\ source[3].type = "CubicTo"
    /\ Len(RunOf(1)) > 2
    /\ RunOf(1)[1].segment.v.from = Pt(Zero, Zero)
    /\ RunOf(3)[1].segment.v.from = source[1].to
====
